---- MODULE Spec2Model ----
\* EzyVoting backend (Flask): election lifecycle, commit/reveal receipts and
\* results cache, modelled from src/backend-flask/app.
EXTENDS Integers, Sequences, FiniteSets, TLC

\* ---------------------------------------------------------------- bounds
NumWorkers == 2
MaxElections == 2
MaxReceipts == 2
MaxTime == 2
MaxCandidates == 2
MaxVotes == 1
MaxVoters == 2
MaxSubmissions == 2
MaxUsers == 1

\* ------------------------------------------------------- program constants
NULL == 0
HTTP_OK == 200
HTTP_CREATED == 201
HTTP_BAD_REQUEST == 400
HTTP_UNAUTHORIZED == 401
HTTP_FORBIDDEN == 403
HTTP_NOT_FOUND == 404
HTTP_CONFLICT == 409
HTTP_SERVER_ERROR == 500
MinCandidates == 2
BallotBase == 10
LedgerTx == 7

VARIABLES
    elections,   \* committed rows of table "elections"; row id = index
    candidates,  \* committed rows of table "candidates"
    receipts,    \* committed rows of table "votes_metadata"; row id = index
    results,     \* committed rows of table "results"
    ballots,     \* the ledger: deployed ballot contracts; on-chain id = index
    now,         \* datetime.utcnow()
    pc,          \* per request worker: where its handler stands
    req,         \* per request worker: the handler's locals / db session
    resp,        \* the response of the request that completed last
    submitted,   \* the ledger write the last step attempted ("none" if none)
    voters,      \* committed rows of table "voters"; row id = index
    registry,    \* the ledger: per wallet, the register-voter calls it accepted
    deactivated, \* the ledger: per wallet, whether its registry entry is deactivated
    account_nonce, \* the ledger: the next nonce of the signing account
    nonce_lock,  \* the worker inside the chain client's submit (0: none)
    broadcast,   \* the nonces of the transactions sent to the ledger, in order
    users,       \* committed rows of table "users"; row id = index
    tokens       \* the access tokens issued so far

vars == <<elections, candidates, receipts, results, ballots, now, pc, req, resp,
          submitted, voters, registry, deactivated, account_nonce, nonce_lock,
          broadcast, users, tokens>>

\* the tables and ledger state of the election handlers, those of the voter
\* handlers
ElectionVars == <<elections, candidates, receipts, results, ballots, now>>
VoterVars == <<voters, registry, deactivated>>
AccountVars == <<account_nonce, nonce_lock, broadcast>>
AuthVars == <<users, tokens>>

Workers == 1..NumWorkers
Times == 1..MaxTime
DeadlineInputs == 1..(MaxTime + 1)
ElectionIds == 1..(MaxElections + 1)

\* wallet addresses as they arrive in a request body, and the ballot addresses
\* a request may name (BallotBase + k is the k-th deployed contract)
RawAddresses == {"0xA", "0xa"}
CommitHashes == {"h1", "h2"}
TxHashes == {NULL, 7}
CommitTxHashes == {7}
BallotInputs == (BallotBase + 1)..(BallotBase + MaxElections + 1)

\* str.strip().lower() on the address set of the model
Lower(a) == IF a = "0xA" THEN "0xa" ELSE a

\* wallet addresses and raw voter ids as they arrive at register_voter, the
\* voter ids a retry may name
WalletInputs == {"0xA", "0xa", " 0xb"}
RawVoterIds == {"v1", "v2"}
VoterIds == 1..(MaxVoters + 1)
EligibilityInputs == {"0xA", "0xa", "0xb"}

\* str.strip() on the wallet inputs of the model
Strip(a) == IF a = " 0xb" THEN "0xb" ELSE a

\* the wallets as the ledger keys them (one address whatever its letter case)
LedgerWallets == {Lower(Strip(a)) : a \in WalletInputs}

\* ws.hash_identity(raw).hex(): a deterministic digest of the raw id
HashIdentity(raw) == IF raw = "v1" THEN "d1" ELSE "d2"

Idle == [op |-> "idle"]
NoResp == [op |-> "none", code |-> 0, election |-> 0]

\* the address the ledger gives the k-th deployed ballot
BallotAddress(k) == BallotBase + k

\* ------------------------------------------------------------ queries
\* Election.query.filter_by(ballot_address=...).first(): 0 when none
ElectionByBallot(addr) ==
    IF \E i \in 1..Len(elections) : elections[i].ballot_address = addr
    THEN CHOOSE i \in 1..Len(elections) :
            /\ elections[i].ballot_address = addr
            /\ \A j \in 1..Len(elections) : elections[j].ballot_address = addr => i <= j
    ELSE 0

\* VoteMetadata.query.filter_by(election_id=, voter_address=).first(): 0 when none
ReceiptFor(e, v) ==
    IF \E i \in 1..Len(receipts) :
            receipts[i].election_id = e /\ receipts[i].voter_address = v
    THEN CHOOSE i \in 1..Len(receipts) :
            /\ receipts[i].election_id = e /\ receipts[i].voter_address = v
            /\ \A j \in 1..Len(receipts) :
                  (receipts[j].election_id = e /\ receipts[j].voter_address = v) => i <= j
    ELSE 0

\* the ledger's ballot behind a ballot address
BallotIndex(addr) == addr - BallotBase

\* the response of a request: its handler, its HTTP status and the election it
\* resolved (0 when it resolved none)
Respond(op, code, election) == resp' = [op |-> op, code |-> code, election |-> election]

Init ==
    /\ elections = <<>>
    /\ candidates = {}
    /\ receipts = <<>>
    /\ results = {}
    /\ ballots = <<>>
    /\ now = 1
    /\ pc = [w \in Workers |-> "idle"]
    /\ req = [w \in Workers |-> Idle]
    /\ resp = NoResp
    /\ submitted = "none"
    /\ voters = <<>>
    /\ registry = [a \in LedgerWallets |-> 0]
    /\ deactivated = [a \in LedgerWallets |-> FALSE]
    /\ account_nonce = 0
    /\ nonce_lock = 0
    /\ broadcast = <<>>
    /\ users = <<>>
    /\ tokens = {}

\* the clock advances
Tick ==
    /\ now < MaxTime
    /\ now' = now + 1
    /\ submitted' = "none"
    /\ UNCHANGED <<elections, candidates, receipts, results, ballots, pc, req, resp>>
    /\ UNCHANGED <<VoterVars, AccountVars, AuthVars>>

\* ------------------------------------------------------- create_election
\* the checks with a commit deadline that may be the present instant
ValidElectionNotStrict(commit_dt, reveal_dt, ncand) ==
    /\ ~(commit_dt < now)
    /\ ~(reveal_dt <= commit_dt)
    /\ ~(ncand < MinCandidates)

\* the three checks of create_election, in the order of the code
ValidElection(commit_dt, reveal_dt, ncand) ==
    /\ ~(commit_dt <= now)
    /\ ~(reveal_dt <= commit_dt)
    /\ ~(ncand < MinCandidates)

\* ws.create_election: the factory deploys the next ballot and returns
\* (onchain_id, ballot_address)
LedgerDeploy == <<Len(ballots) + 1, BallotAddress(Len(ballots) + 1)>>

\* the deployment with the status set outside the try block
DeployResultActive(ok) ==
    IF ok
    THEN [onchain_id |-> LedgerDeploy[1],
          ballot_address |-> LedgerDeploy[2],
          status |-> "active"]
    ELSE [onchain_id |-> NULL, ballot_address |-> NULL, status |-> "active"]

\* the deployment with only election.onchain_id assigned
DeployResultIdOnly(ok) ==
    IF ok
    THEN [onchain_id |-> LedgerDeploy[1],
          ballot_address |-> NULL,
          status |-> "active"]
    ELSE [onchain_id |-> NULL, ballot_address |-> NULL, status |-> "pending"]

\* the try/except around the deployment: the identifiers and the status the
\* election gets when the call returns (ok) and when it raises
DeployResult(ok) ==
    IF ok
    THEN [onchain_id |-> LedgerDeploy[1],
          ballot_address |-> LedgerDeploy[2],
          status |-> "active"]
    ELSE [onchain_id |-> NULL, ballot_address |-> NULL, status |-> "pending"]

CreatesInFlight == Cardinality({w \in Workers : pc[w] = "create_commit"})

\* a multi-step request is served by the first free worker
FirstFree(w) == pc[w] = "idle" /\ \A v \in 1..(w - 1) : pc[v] # "idle"

\* create_election up to the ledger call: validation, the session's pending
\* Election and Candidate rows (flushed, not committed), the deployment
CreateElectionBegin(w, commit_dt, reveal_dt, ncand, ok) ==
    /\ FirstFree(w)
    /\ IF ValidElection(commit_dt, reveal_dt, ncand)
       THEN /\ Len(elections) + CreatesInFlight < MaxElections
            /\ LET d == DeployResult(ok) IN
               /\ req' = [req EXCEPT ![w] =
                     [op |-> "create_election",
                      commit_deadline |-> commit_dt,
                      reveal_deadline |-> reveal_dt,
                      ncand |-> ncand,
                      deployed |-> ok,
                      onchain_id |-> d.onchain_id,
                      ballot_address |-> d.ballot_address,
                      status |-> d.status]]
               /\ ballots' = IF ok THEN Append(ballots, [finalized |-> FALSE]) ELSE ballots
            /\ pc' = [pc EXCEPT ![w] = "create_commit"]
            /\ submitted' = "deploy"
            /\ UNCHANGED resp
       ELSE /\ Respond("create_election", HTTP_BAD_REQUEST, 0)
            /\ submitted' = "none"
            /\ UNCHANGED <<ballots, pc, req>>
    /\ UNCHANGED <<elections, candidates, receipts, results, now>>

\* the row without the assignment of election.ballot_address
ElectionRowNoAddress(r) ==
    [status |-> r.status,
     onchain_id |-> r.onchain_id,
     ballot_address |-> NULL,
     commit_deadline |-> r.commit_deadline,
     reveal_deadline |-> r.reveal_deadline]

\* the Election row the session commits
ElectionRow(r) ==
    [status |-> r.status,
     onchain_id |-> r.onchain_id,
     ballot_address |-> r.ballot_address,
     commit_deadline |-> r.commit_deadline,
     reveal_deadline |-> r.reveal_deadline]

\* db.session.commit() of create_election and its 201 response
CreateElectionCommit(w) ==
    /\ pc[w] = "create_commit"
    /\ elections' = Append(elections, ElectionRow(req[w]))
    /\ candidates' = candidates \cup
           {[election_id |-> Len(elections) + 1, idx |-> i] : i \in 1..req[w].ncand}
    /\ Respond("create_election", HTTP_CREATED, Len(elections) + 1)
    /\ pc' = [pc EXCEPT ![w] = "idle"]
    /\ req' = [req EXCEPT ![w] = Idle]
    /\ submitted' = "none"
    /\ UNCHANGED <<receipts, results, ballots, now>>

\* --------------------------------------------------------- record_commit
CommitsInFlight == Cardinality({w \in Workers : pc[w] = "commit_insert"})

\* the VoteMetadata row record_commit adds (column defaults filled in)
NewReceipt(r) ==
    [election_id |-> r.election_id,
     voter_address |-> r.voter_address,
     receipt_hash |-> r.receipt_hash,
     commit_tx_hash |-> r.commit_tx_hash,
     reveal_tx_hash |-> NULL,
     phase |-> "committed",
     committed_at |-> now,
     revealed_at |-> NULL]

\* record_commit without its duplicate check
RecordCommitCheckNoDup(w, ballot_address, commit_hash, voter_raw, tx_hash) ==
    LET voter_address == Lower(voter_raw)
        election == ElectionByBallot(ballot_address)
    IN
    /\ FirstFree(w)
    /\ submitted' = "none"
    /\ IF election = 0
       THEN /\ Respond("record_commit", HTTP_NOT_FOUND, 0)
            /\ UNCHANGED <<pc, req>>
       ELSE /\ Len(receipts) + CommitsInFlight < MaxReceipts
            /\ pc' = [pc EXCEPT ![w] = "commit_insert"]
            /\ req' = [req EXCEPT ![w] =
                  [op |-> "record_commit",
                   election_id |-> election,
                   voter_address |-> voter_address,
                   receipt_hash |-> commit_hash,
                   commit_tx_hash |-> tx_hash]]
            /\ UNCHANGED resp
    /\ UNCHANGED <<elections, candidates, receipts, results, ballots, now>>

\* record_commit up to the duplicate check: resolves the ballot to an election,
\* looks for an existing receipt of the (election, voter) pair
RecordCommitCheck(w, ballot_address, commit_hash, voter_raw, tx_hash) ==
    LET voter_address == Lower(voter_raw)
        election == ElectionByBallot(ballot_address)
    IN
    /\ FirstFree(w)
    /\ submitted' = "none"
    /\ IF election = 0
       THEN /\ Respond("record_commit", HTTP_NOT_FOUND, 0)
            /\ UNCHANGED <<pc, req>>
       ELSE IF ReceiptFor(election, voter_address) # 0
       THEN /\ Respond("record_commit", HTTP_CONFLICT, election)
            /\ UNCHANGED <<pc, req>>
       ELSE /\ Len(receipts) + CommitsInFlight < MaxReceipts
            /\ pc' = [pc EXCEPT ![w] = "commit_insert"]
            /\ req' = [req EXCEPT ![w] =
                  [op |-> "record_commit",
                   election_id |-> election,
                   voter_address |-> voter_address,
                   receipt_hash |-> commit_hash,
                   commit_tx_hash |-> tx_hash]]
            /\ UNCHANGED resp
    /\ UNCHANGED <<elections, candidates, receipts, results, ballots, now>>

\* the table without its unique constraint
UniqueViolationOff(election_id, voter_address) == FALSE

\* uq_vote_election_voter: the insert of a second row of a pair is refused
UniqueViolation(election_id, voter_address) ==
    \E i \in 1..Len(receipts) :
        /\ receipts[i].election_id = election_id
        /\ receipts[i].voter_address = voter_address

\* record_commit writing with session.merge: a row of the pair is replaced
RecordCommitUpsert(w) ==
    /\ pc[w] = "commit_insert"
    /\ receipts' =
          IF UniqueViolation(req[w].election_id, req[w].voter_address)
          THEN [receipts EXCEPT ![ReceiptFor(req[w].election_id, req[w].voter_address)] =
                    NewReceipt(req[w])]
          ELSE Append(receipts, NewReceipt(req[w]))
    /\ Respond("record_commit", HTTP_OK, req[w].election_id)
    /\ pc' = [pc EXCEPT ![w] = "idle"]
    /\ req' = [req EXCEPT ![w] = Idle]
    /\ submitted' = "none"
    /\ UNCHANGED <<elections, candidates, results, ballots, now>>

\* db.session.add(meta); db.session.commit() of record_commit: the insert, or
\* the IntegrityError of the unique constraint, which no handler catches
RecordCommitInsert(w) ==
    /\ pc[w] = "commit_insert"
    /\ IF UniqueViolation(req[w].election_id, req[w].voter_address)
       THEN /\ Respond("record_commit", HTTP_SERVER_ERROR, req[w].election_id)
            /\ UNCHANGED receipts
       ELSE /\ receipts' = Append(receipts, NewReceipt(req[w]))
            /\ Respond("record_commit", HTTP_OK, req[w].election_id)
    /\ pc' = [pc EXCEPT ![w] = "idle"]
    /\ req' = [req EXCEPT ![w] = Idle]
    /\ submitted' = "none"
    /\ UNCHANGED <<elections, candidates, results, ballots, now>>

\* --------------------------------------------------------- record_reveal
\* the receipt as record_reveal leaves it
Revealed(meta, tx_hash) ==
    [meta EXCEPT !.phase = "revealed", !.reveal_tx_hash = tx_hash, !.revealed_at = now]

\* record_reveal as an upsert: a pair without a receipt gets a revealed one
RecordRevealCreates(ballot_address, voter_raw, tx_hash) ==
    LET voter_address == Lower(voter_raw)
        election == ElectionByBallot(ballot_address)
        meta == ReceiptFor(election, voter_address)
    IN
    /\ submitted' = "none"
    /\ IF election = 0
       THEN /\ Respond("record_reveal", HTTP_NOT_FOUND, 0)
            /\ UNCHANGED receipts
       ELSE IF meta = 0
       THEN /\ Len(receipts) < MaxReceipts
            /\ receipts' = Append(receipts,
                   Revealed([election_id |-> election,
                             voter_address |-> voter_address,
                             receipt_hash |-> "h1",
                             commit_tx_hash |-> NULL,
                             reveal_tx_hash |-> NULL,
                             phase |-> "committed",
                             committed_at |-> now,
                             revealed_at |-> NULL], tx_hash))
            /\ Respond("record_reveal", HTTP_OK, election)
       ELSE /\ receipts' = [receipts EXCEPT ![meta] = Revealed(receipts[meta], tx_hash)]
            /\ Respond("record_reveal", HTTP_OK, election)
    /\ UNCHANGED <<elections, candidates, results, ballots, now, pc, req>>

RecordReveal(ballot_address, voter_raw, tx_hash) ==
    LET voter_address == Lower(voter_raw)
        election == ElectionByBallot(ballot_address)
        meta == ReceiptFor(election, voter_address)
    IN
    /\ submitted' = "none"
    /\ IF election = 0
       THEN /\ Respond("record_reveal", HTTP_NOT_FOUND, 0)
            /\ UNCHANGED receipts
       ELSE IF meta = 0
       THEN /\ Respond("record_reveal", HTTP_NOT_FOUND, election)
            /\ UNCHANGED receipts
       ELSE /\ receipts' = [receipts EXCEPT ![meta] = Revealed(receipts[meta], tx_hash)]
            /\ Respond("record_reveal", HTTP_OK, election)
    /\ UNCHANGED <<elections, candidates, results, ballots, now, pc, req>>

\* ---------------------------------------------------------- sync_results
RECURSIVE MaxOf(_, _)
\* max((r["vote_count"] for r in results), default=0)
MaxOf(votes, n) ==
    IF n = 0 THEN 0
    ELSE LET m == MaxOf(votes, n - 1) IN IF votes[n] > m THEN votes[n] ELSE m

\* the rows with is_winner computed without the test max_votes > 0
CachedRowsZeroWins(election_id, votes, total_commits, total_reveals) ==
    LET max_votes == MaxOf(votes, Len(votes)) IN
    {[election_id |-> election_id,
      candidate_id |-> i,
      vote_count |-> votes[i],
      total_commits |-> total_commits,
      total_reveals |-> total_reveals,
      is_winner |-> (votes[i] = max_votes)] : i \in 1..Len(votes)}

\* the Result rows sync_results adds for one fetch
CachedRows(election_id, votes, total_commits, total_reveals) ==
    LET max_votes == MaxOf(votes, Len(votes)) IN
    {[election_id |-> election_id,
      candidate_id |-> i,
      vote_count |-> votes[i],
      total_commits |-> total_commits,
      total_reveals |-> total_reveals,
      is_winner |-> (votes[i] = max_votes /\ max_votes > 0)] : i \in 1..Len(votes)}

\* the status written as finalized whatever the ledger reports
SyncedStatusAlways(status, is_finalized) == "finalized"

\* election.status = "finalized" if info["is_finalized"] else election.status
SyncedStatus(status, is_finalized) ==
    IF is_finalized THEN "finalized" ELSE status

\* what the ledger may answer: the candidates' vote counts, the counters
VoteVectors == UNION {[1..n -> 0..MaxVotes] : n \in 0..MaxCandidates}
InfoInputs == {[total_commits |-> MaxVotes + 1, total_reveals |-> MaxVotes]}

\* sync_results clearing the cached rows before it fetches
SyncResultsDeleteFirst(election_id, fetch_ok, votes, total_commits, total_reveals) ==
    /\ submitted' = "none"
    /\ IF election_id > Len(elections)
       THEN /\ Respond("sync_results", HTTP_NOT_FOUND, 0)
            /\ UNCHANGED <<elections, results>>
       ELSE IF elections[election_id].ballot_address = NULL
       THEN /\ Respond("sync_results", HTTP_BAD_REQUEST, election_id)
            /\ UNCHANGED <<elections, results>>
       ELSE IF ~fetch_ok
       THEN /\ Respond("sync_results", HTTP_SERVER_ERROR, election_id)
            /\ results' = {r \in results : r.election_id # election_id}
            /\ UNCHANGED elections
       ELSE LET info == ballots[BallotIndex(elections[election_id].ballot_address)] IN
            /\ results' = {r \in results : r.election_id # election_id}
                   \cup CachedRows(election_id, votes, total_commits, total_reveals)
            /\ elections' = [elections EXCEPT ![election_id].status =
                   SyncedStatus(elections[election_id].status, info.finalized)]
            /\ Respond("sync_results", HTTP_OK, election_id)
    /\ UNCHANGED <<candidates, receipts, ballots, now, pc, req>>

\* sync_results adding the fetched rows to the cached ones
SyncResultsCumulative(election_id, fetch_ok, votes, total_commits, total_reveals) ==
    /\ submitted' = "none"
    /\ IF election_id > Len(elections)
       THEN /\ Respond("sync_results", HTTP_NOT_FOUND, 0)
            /\ UNCHANGED <<elections, results>>
       ELSE IF elections[election_id].ballot_address = NULL
       THEN /\ Respond("sync_results", HTTP_BAD_REQUEST, election_id)
            /\ UNCHANGED <<elections, results>>
       ELSE IF ~fetch_ok
       THEN /\ Respond("sync_results", HTTP_SERVER_ERROR, election_id)
            /\ UNCHANGED <<elections, results>>
       ELSE LET info == ballots[BallotIndex(elections[election_id].ballot_address)] IN
            /\ results' = results
                   \cup CachedRows(election_id, votes, total_commits, total_reveals)
            /\ elections' = [elections EXCEPT ![election_id].status =
                   SyncedStatus(elections[election_id].status, info.finalized)]
            /\ Respond("sync_results", HTTP_OK, election_id)
    /\ UNCHANGED <<candidates, receipts, ballots, now, pc, req>>

\* sync_results: the two ledger reads (fetch_ok: both returned), then the
\* cached rows of the election replaced and the status written, in one commit
SyncResults(election_id, fetch_ok, votes, total_commits, total_reveals) ==
    /\ submitted' = "none"
    /\ IF election_id > Len(elections)
       THEN /\ Respond("sync_results", HTTP_NOT_FOUND, 0)
            /\ UNCHANGED <<elections, results>>
       ELSE IF elections[election_id].ballot_address = NULL
       THEN /\ Respond("sync_results", HTTP_BAD_REQUEST, election_id)
            /\ UNCHANGED <<elections, results>>
       ELSE IF ~fetch_ok
       THEN /\ Respond("sync_results", HTTP_SERVER_ERROR, election_id)
            /\ UNCHANGED <<elections, results>>
       ELSE LET info == ballots[BallotIndex(elections[election_id].ballot_address)] IN
            /\ results' = {r \in results : r.election_id # election_id}
                   \cup CachedRows(election_id, votes, total_commits, total_reveals)
            /\ elections' = [elections EXCEPT ![election_id].status =
                   SyncedStatus(elections[election_id].status, info.finalized)]
            /\ Respond("sync_results", HTTP_OK, election_id)
    /\ UNCHANGED <<candidates, receipts, ballots, now, pc, req>>

\* sync_results of a request that runs next to others, up to its commit: the
\* checks, the two ledger reads, the delete of the cached rows the session
\* sees and the pending new rows and status (nothing is committed yet, and
\* nothing of the application makes a second sync wait)
SyncResultsBegin(w, election_id, fetch_ok, votes, total_commits, total_reveals) ==
    /\ FirstFree(w)
    /\ submitted' = "none"
    /\ IF election_id > Len(elections)
       THEN /\ Respond("sync_results", HTTP_NOT_FOUND, 0)
            /\ UNCHANGED <<pc, req>>
       ELSE IF elections[election_id].ballot_address = NULL
       THEN /\ Respond("sync_results", HTTP_BAD_REQUEST, election_id)
            /\ UNCHANGED <<pc, req>>
       ELSE IF ~fetch_ok
       THEN /\ Respond("sync_results", HTTP_SERVER_ERROR, election_id)
            /\ UNCHANGED <<pc, req>>
       ELSE LET info == ballots[BallotIndex(elections[election_id].ballot_address)] IN
            /\ req' = [req EXCEPT ![w] =
                  [op |-> "sync_results",
                   election_id |-> election_id,
                   deleted |-> {r \in results : r.election_id = election_id},
                   rows |-> CachedRows(election_id, votes, total_commits, total_reveals),
                   is_finalized |-> info.finalized]]
            /\ pc' = [pc EXCEPT ![w] = "sync_commit"]
            /\ UNCHANGED resp
    /\ UNCHANGED <<elections, candidates, receipts, results, ballots, now>>

\* db.session.commit() of sync_results: the deletes and inserts of the session
\* reach the table, the status is written, the request answers 200
SyncResultsCommit(w) ==
    /\ pc[w] = "sync_commit"
    /\ results' = (results \ req[w].deleted) \cup req[w].rows
    /\ elections' = [elections EXCEPT ![req[w].election_id].status =
           SyncedStatus(elections[req[w].election_id].status, req[w].is_finalized)]
    /\ Respond("sync_results", HTTP_OK, req[w].election_id)
    /\ pc' = [pc EXCEPT ![w] = "idle"]
    /\ req' = [req EXCEPT ![w] = Idle]
    /\ submitted' = "none"
    /\ UNCHANGED <<candidates, receipts, ballots, now>>

\* -------------------------------------------------------- cancel_election
\* election.status = "cancelled"
CancelledStatus(status) == "cancelled"

\* cancel_election writing the local status first and swallowing a ledger
\* failure
CancelElectionLocalFirst(election_id, tx_ok) ==
    IF election_id > Len(elections)
    THEN /\ Respond("cancel_election", HTTP_NOT_FOUND, 0)
         /\ submitted' = "none"
         /\ UNCHANGED <<elections, candidates, receipts, results, ballots, now, pc, req>>
    ELSE /\ submitted' = IF elections[election_id].ballot_address # NULL
                         THEN "cancel" ELSE "none"
         /\ elections' = [elections EXCEPT ![election_id].status =
                CancelledStatus(elections[election_id].status)]
         /\ Respond("cancel_election", HTTP_OK, election_id)
         /\ UNCHANGED <<candidates, receipts, results, ballots, now, pc, req>>

\* cancel_election sending the ledger transaction whether or not a ballot is
\* deployed
CancelElectionAlwaysLedger(election_id, tx_ok) ==
    IF election_id > Len(elections)
    THEN /\ Respond("cancel_election", HTTP_NOT_FOUND, 0)
         /\ submitted' = "none"
         /\ UNCHANGED <<elections, candidates, receipts, results, ballots, now, pc, req>>
    ELSE /\ submitted' = "cancel"
         /\ IF ~tx_ok
            THEN /\ Respond("cancel_election", HTTP_SERVER_ERROR, election_id)
                 /\ UNCHANGED elections
            ELSE /\ elections' = [elections EXCEPT ![election_id].status =
                        CancelledStatus(elections[election_id].status)]
                 /\ Respond("cancel_election", HTTP_OK, election_id)
         /\ UNCHANGED <<candidates, receipts, results, ballots, now, pc, req>>

CancelElection(election_id, tx_ok) ==
    IF election_id > Len(elections)
    THEN /\ Respond("cancel_election", HTTP_NOT_FOUND, 0)
         /\ submitted' = "none"
         /\ UNCHANGED <<elections, candidates, receipts, results, ballots, now, pc, req>>
    ELSE /\ submitted' = IF elections[election_id].ballot_address # NULL
                         THEN "cancel" ELSE "none"
         /\ IF elections[election_id].ballot_address # NULL /\ ~tx_ok
            THEN /\ Respond("cancel_election", HTTP_SERVER_ERROR, election_id)
                 /\ UNCHANGED elections
            ELSE /\ elections' = [elections EXCEPT ![election_id].status =
                        CancelledStatus(elections[election_id].status)]
                 /\ Respond("cancel_election", HTTP_OK, election_id)
         /\ UNCHANGED <<candidates, receipts, results, ballots, now, pc, req>>

\* --------------------------------------------------------- register_voter
RegistersInFlight == Cardinality({w \in Workers : pc[w] = "register_commit"})

\* equality of two strings in the database: the MySQL server the application
\* is configured for compares VARCHAR columns without regard to letter case
SameText(a, b) == Lower(a) = Lower(b)

\* Voter.query.filter_by(wallet_address=wallet).first() finds a row
WalletTaken(wallet) ==
    \E i \in 1..Len(voters) : SameText(voters[i].wallet_address, wallet)

\* Voter.query.filter_by(identity_hash=identity_hash).first() finds a row
IdentityTaken(identity_hash) ==
    \E i \in 1..Len(voters) : SameText(voters[i].identity_hash, identity_hash)

\* ws.register_voter(wallet, ...): the registry's count of accepted
\* registrations of the wallet after a call that returned (ok) or raised
LedgerRegister(wallet, ok) ==
    IF ok THEN [registry EXCEPT ![Lower(wallet)] = @ + 1] ELSE registry

\* register_voter up to the ledger call: the two duplicate checks, the pending
\* Voter object, the on-chain registration with its try/except
RegisterVoterBegin(w, wallet_raw, raw_voter_id, ok) ==
    LET wallet == Strip(wallet_raw)
        identity_hash == HashIdentity(raw_voter_id)
    IN
    /\ FirstFree(w)
    /\ IF WalletTaken(wallet) \/ IdentityTaken(identity_hash)
       THEN /\ Respond("register_voter", HTTP_CONFLICT, 0)
            /\ submitted' = "none"
            /\ UNCHANGED <<pc, req, registry>>
       ELSE /\ Len(voters) + RegistersInFlight < MaxVoters
            /\ ok => registry[Lower(wallet)] < MaxSubmissions
            /\ registry' = LedgerRegister(wallet, ok)
            /\ submitted' = "register"
            /\ req' = [req EXCEPT ![w] =
                  [op |-> "register_voter",
                   wallet_address |-> wallet,
                   identity_hash |-> identity_hash,
                   is_registered_onchain |-> ok,
                   tx_hash |-> IF ok THEN LedgerTx ELSE NULL]]
            /\ pc' = [pc EXCEPT ![w] = "register_commit"]
            /\ UNCHANGED resp
    /\ UNCHANGED voters
    /\ UNCHANGED ElectionVars

\* the row with is_registered_onchain set outside the try block
VoterRowRegistered(r) ==
    [wallet_address |-> r.wallet_address,
     identity_hash |-> r.identity_hash,
     is_registered_onchain |-> TRUE,
     tx_hash |-> r.tx_hash,
     is_active |-> TRUE]

\* the Voter row the session commits (column defaults filled in)
VoterRow(r) ==
    [wallet_address |-> r.wallet_address,
     identity_hash |-> r.identity_hash,
     is_registered_onchain |-> r.is_registered_onchain,
     tx_hash |-> r.tx_hash,
     is_active |-> TRUE]

\* table "voters" without its unique indexes
VoterUniqueViolationOff(wallet, identity_hash) == FALSE

\* the unique columns wallet_address and identity_hash of table "voters"
VoterUniqueViolation(wallet, identity_hash) ==
    WalletTaken(wallet) \/ IdentityTaken(identity_hash)

\* db.session.add(voter); db.session.commit() of register_voter: the insert
\* and the 201 response, or the IntegrityError no handler catches
RegisterVoterCommit(w) ==
    /\ pc[w] = "register_commit"
    /\ IF VoterUniqueViolation(req[w].wallet_address, req[w].identity_hash)
       THEN /\ Respond("register_voter", HTTP_SERVER_ERROR, 0)
            /\ UNCHANGED voters
       ELSE /\ voters' = Append(voters, VoterRow(req[w]))
            /\ Respond("register_voter", HTTP_CREATED, Len(voters) + 1)
    /\ pc' = [pc EXCEPT ![w] = "idle"]
    /\ req' = [req EXCEPT ![w] = Idle]
    /\ submitted' = "none"
    /\ UNCHANGED registry
    /\ UNCHANGED ElectionVars

\* ---------------------------------------------- retry_onchain_registration
\* the retry without its test of voter.is_registered_onchain
RetryBeginNoGuard(w, voter_id) ==
    /\ FirstFree(w)
    /\ submitted' = "none"
    /\ IF voter_id > Len(voters)
       THEN /\ Respond("retry_onchain_registration", HTTP_NOT_FOUND, 0)
            /\ UNCHANGED <<pc, req>>
       ELSE /\ pc' = [pc EXCEPT ![w] = "retry_submit"]
            /\ req' = [req EXCEPT ![w] =
                  [op |-> "retry_onchain_registration", voter_id |-> voter_id]]
            /\ UNCHANGED resp
    /\ UNCHANGED VoterVars
    /\ UNCHANGED ElectionVars

\* retry_onchain_registration up to the ledger call: the voter is loaded and
\* its flag tested
RetryBegin(w, voter_id) ==
    /\ FirstFree(w)
    /\ submitted' = "none"
    /\ IF voter_id > Len(voters)
       THEN /\ Respond("retry_onchain_registration", HTTP_NOT_FOUND, 0)
            /\ UNCHANGED <<pc, req>>
       ELSE IF voters[voter_id].is_registered_onchain
       THEN /\ Respond("retry_onchain_registration", HTTP_BAD_REQUEST, voter_id)
            /\ UNCHANGED <<pc, req>>
       ELSE /\ pc' = [pc EXCEPT ![w] = "retry_submit"]
            /\ req' = [req EXCEPT ![w] =
                  [op |-> "retry_onchain_registration", voter_id |-> voter_id]]
            /\ UNCHANGED resp
    /\ UNCHANGED VoterVars
    /\ UNCHANGED ElectionVars

\* the retry marking the voter registered whether or not the call returned
RetrySubmitAlwaysFlag(w, ok) ==
    LET voter_id == req[w].voter_id IN
    /\ pc[w] = "retry_submit"
    /\ ok => registry[Lower(voters[voter_id].wallet_address)] < MaxSubmissions
    /\ registry' = LedgerRegister(voters[voter_id].wallet_address, ok)
    /\ submitted' = "register"
    /\ voters' = [voters EXCEPT ![voter_id].is_registered_onchain = TRUE,
                                ![voter_id].tx_hash = LedgerTx]
    /\ Respond("retry_onchain_registration",
               IF ok THEN HTTP_OK ELSE HTTP_SERVER_ERROR, voter_id)
    /\ pc' = [pc EXCEPT ![w] = "idle"]
    /\ req' = [req EXCEPT ![w] = Idle]
    /\ UNCHANGED ElectionVars

\* the retry passing over a failed ledger call: the hash is stored and the
\* request answers 200
RetrySubmitSilent(w, ok) ==
    LET voter_id == req[w].voter_id IN
    /\ pc[w] = "retry_submit"
    /\ ok => registry[Lower(voters[voter_id].wallet_address)] < MaxSubmissions
    /\ registry' = LedgerRegister(voters[voter_id].wallet_address, ok)
    /\ submitted' = "register"
    /\ voters' = [voters EXCEPT ![voter_id].is_registered_onchain = ok,
                                ![voter_id].tx_hash = LedgerTx]
    /\ Respond("retry_onchain_registration", HTTP_OK, voter_id)
    /\ pc' = [pc EXCEPT ![w] = "idle"]
    /\ req' = [req EXCEPT ![w] = Idle]
    /\ UNCHANGED ElectionVars

\* the try block of retry_onchain_registration: the ledger call, then the flag
\* and the transaction hash committed; 500 when the call raises
RetrySubmit(w, ok) ==
    LET voter_id == req[w].voter_id IN
    /\ pc[w] = "retry_submit"
    /\ ok => registry[Lower(voters[voter_id].wallet_address)] < MaxSubmissions
    /\ registry' = LedgerRegister(voters[voter_id].wallet_address, ok)
    /\ submitted' = "register"
    /\ IF ok
       THEN /\ voters' = [voters EXCEPT ![voter_id].is_registered_onchain = TRUE,
                                        ![voter_id].tx_hash = LedgerTx]
            /\ Respond("retry_onchain_registration", HTTP_OK, voter_id)
       ELSE /\ Respond("retry_onchain_registration", HTTP_SERVER_ERROR, voter_id)
            /\ UNCHANGED voters
    /\ pc' = [pc EXCEPT ![w] = "idle"]
    /\ req' = [req EXCEPT ![w] = Idle]
    /\ UNCHANGED ElectionVars

\* ------------------------------------- deactivate_voter, reactivate_voter
\* deactivate_voter up to its commit: the voter is loaded, is_active is set
\* to False and committed
DeactivateVoterBegin(w, voter_id) ==
    /\ FirstFree(w)
    /\ submitted' = "none"
    /\ IF voter_id > Len(voters)
       THEN /\ Respond("deactivate_voter", HTTP_NOT_FOUND, 0)
            /\ UNCHANGED <<pc, req, voters>>
       ELSE /\ voters' = [voters EXCEPT ![voter_id].is_active = FALSE]
            /\ pc' = [pc EXCEPT ![w] = "deactivate_tx"]
            /\ req' = [req EXCEPT ![w] =
                  [op |-> "deactivate_voter", voter_id |-> voter_id]]
            /\ UNCHANGED resp
    /\ UNCHANGED <<registry, deactivated>>
    /\ UNCHANGED ElectionVars

\* deactivate_voter undoing its local write and failing when the ledger call
\* fails
DeactivateVoterTxStrict(w, ok) ==
    LET wallet == Lower(voters[req[w].voter_id].wallet_address) IN
    /\ pc[w] = "deactivate_tx"
    /\ submitted' = "deactivate"
    /\ deactivated' = IF ok THEN [deactivated EXCEPT ![wallet] = TRUE] ELSE deactivated
    /\ voters' = IF ok THEN voters
                 ELSE [voters EXCEPT ![req[w].voter_id].is_active = TRUE]
    /\ Respond("deactivate_voter", IF ok THEN HTTP_OK ELSE HTTP_SERVER_ERROR,
               req[w].voter_id)
    /\ pc' = [pc EXCEPT ![w] = "idle"]
    /\ req' = [req EXCEPT ![w] = Idle]
    /\ UNCHANGED registry
    /\ UNCHANGED ElectionVars

\* the ledger half of deactivate_voter: the deactivateVoter transaction, an
\* exception of which is passed over, and the 200 response
DeactivateVoterTx(w, ok) ==
    LET wallet == Lower(voters[req[w].voter_id].wallet_address) IN
    /\ pc[w] = "deactivate_tx"
    /\ submitted' = "deactivate"
    /\ deactivated' = IF ok THEN [deactivated EXCEPT ![wallet] = TRUE] ELSE deactivated
    /\ Respond("deactivate_voter", HTTP_OK, req[w].voter_id)
    /\ pc' = [pc EXCEPT ![w] = "idle"]
    /\ req' = [req EXCEPT ![w] = Idle]
    /\ UNCHANGED <<voters, registry>>
    /\ UNCHANGED ElectionVars

\* reactivate_voter up to its commit: is_active is set to True and committed
ReactivateVoterBegin(w, voter_id) ==
    /\ FirstFree(w)
    /\ submitted' = "none"
    /\ IF voter_id > Len(voters)
       THEN /\ Respond("reactivate_voter", HTTP_NOT_FOUND, 0)
            /\ UNCHANGED <<pc, req, voters>>
       ELSE /\ voters' = [voters EXCEPT ![voter_id].is_active = TRUE]
            /\ pc' = [pc EXCEPT ![w] = "reactivate_tx"]
            /\ req' = [req EXCEPT ![w] =
                  [op |-> "reactivate_voter", voter_id |-> voter_id]]
            /\ UNCHANGED resp
    /\ UNCHANGED <<registry, deactivated>>
    /\ UNCHANGED ElectionVars

\* the ledger half of reactivate_voter
ReactivateVoterTx(w, ok) ==
    LET wallet == Lower(voters[req[w].voter_id].wallet_address) IN
    /\ pc[w] = "reactivate_tx"
    /\ submitted' = "reactivate"
    /\ deactivated' = IF ok THEN [deactivated EXCEPT ![wallet] = FALSE] ELSE deactivated
    /\ Respond("reactivate_voter", HTTP_OK, req[w].voter_id)
    /\ pc' = [pc EXCEPT ![w] = "idle"]
    /\ req' = [req EXCEPT ![w] = Idle]
    /\ UNCHANGED <<voters, registry>>
    /\ UNCHANGED ElectionVars

\* -------------------------------------------------------- check_eligibility
\* ws.is_voter_eligible(wallet): the registry holds the wallet and has not
\* deactivated it
LedgerEligible(wallet) == registry[Lower(wallet)] >= 1 /\ ~deactivated[Lower(wallet)]

\* check_eligibility: the ledger's answer passed on, 500 when the read raises
CheckEligibility(wallet_address, read_ok) ==
    /\ submitted' = "none"
    /\ resp' = IF read_ok
               THEN [op |-> "check_eligibility", code |-> HTTP_OK, election |-> 0,
                     eligible |-> LedgerEligible(wallet_address)]
               ELSE [op |-> "check_eligibility", code |-> HTTP_SERVER_ERROR,
                     election |-> 0, eligible |-> FALSE]
    /\ UNCHANGED <<pc, req>>
    /\ UNCHANGED VoterVars
    /\ UNCHANGED ElectionVars

\* ------------------------------------------ admin_register, the two logins
Emails == {"e1", "e2"}
AdminRoles == {"admin", "super_admin"}

\* User.query.filter_by(email=...).first(): 0 when none
UserByEmail(email) ==
    IF \E u \in 1..Len(users) : SameText(users[u].email, email)
    THEN CHOOSE u \in 1..Len(users) :
            /\ SameText(users[u].email, email)
            /\ \A x \in 1..Len(users) : SameText(users[x].email, email) => u <= x
    ELSE 0

\* Voter.query.filter(lower(wallet_address) == wallet).first(): 0 when none
VoterByWallet(wallet) ==
    IF \E v \in 1..Len(voters) : Lower(voters[v].wallet_address) = wallet
    THEN CHOOSE v \in 1..Len(voters) :
            /\ Lower(voters[v].wallet_address) = wallet
            /\ \A x \in 1..Len(voters) :
                  Lower(voters[x].wallet_address) = wallet => v <= x
    ELSE 0

\* create_access_token(identity=user.id): a token without a role claim
AdminToken(user_id) == [identity |-> user_id, role |-> "none"]

\* create_access_token(identity=voter.id, additional_claims={"role": "voter"})
VoterToken(voter_id) == [identity |-> voter_id, role |-> "voter"]

\* admin_register: the invite code, the email's duplicate check, the new
\* admin row and its token
AdminRegister(email, invite_ok) ==
    /\ submitted' = "none"
    /\ IF ~invite_ok
       THEN /\ Respond("admin_register", HTTP_FORBIDDEN, 0)
            /\ UNCHANGED <<users, tokens>>
       ELSE IF UserByEmail(email) # 0
       THEN /\ Respond("admin_register", HTTP_CONFLICT, 0)
            /\ UNCHANGED <<users, tokens>>
       ELSE /\ Len(users) < MaxUsers
            /\ users' = Append(users, [email |-> email, role |-> "admin",
                                       is_active |-> TRUE])
            /\ tokens' = tokens \cup {AdminToken(Len(users) + 1)}
            /\ Respond("admin_register", HTTP_CREATED, Len(users) + 1)
    /\ UNCHANGED <<pc, req>>

\* admin_login: the user of the email, active and with the right password,
\* gets a token
AdminLogin(email, password_ok) ==
    LET user == UserByEmail(email) IN
    /\ submitted' = "none"
    /\ IF user = 0 \/ ~users[user].is_active \/ ~password_ok
       THEN /\ Respond("admin_login", HTTP_UNAUTHORIZED, 0)
            /\ UNCHANGED tokens
       ELSE /\ tokens' = tokens \cup {AdminToken(user)}
            /\ Respond("admin_login", HTTP_OK, user)
    /\ UNCHANGED <<pc, req, users>>

\* voter_login: the active voter of the wallet gets a token whose identity is
\* the voter's id
VoterLogin(wallet_raw) ==
    LET voter == VoterByWallet(Lower(Strip(wallet_raw))) IN
    /\ submitted' = "none"
    /\ IF voter = 0 \/ ~voters[voter].is_active
       THEN /\ Respond("voter_login", HTTP_UNAUTHORIZED, 0)
            /\ UNCHANGED tokens
       ELSE /\ tokens' = tokens \cup {VoterToken(voter)}
            /\ Respond("voter_login", HTTP_OK, voter)
    /\ UNCHANGED <<pc, req, users>>

\* --------------------------------------------------------- admin_required
\* the decorator's answer to a request carrying the token: 200 stands for
\* "the handler is called"
AdminRequiredCode(token) ==
    IF token.identity > Len(users) THEN HTTP_UNAUTHORIZED
    ELSE IF ~users[token.identity].is_active THEN HTTP_UNAUTHORIZED
    ELSE IF users[token.identity].role \notin AdminRoles THEN HTTP_FORBIDDEN
    ELSE HTTP_OK

\* a request to an admin-only route with a token the application issued
AdminRequired(token) ==
    /\ token \in tokens
    /\ submitted' = "none"
    /\ resp' = [op |-> "admin_required", code |-> AdminRequiredCode(token),
                election |-> token.identity, role |-> token.role]
    /\ UNCHANGED <<pc, req, users, tokens>>

\* ------------------------------------------------- the chain client's submit
\* the ledger writes the handlers make through the chain client
LedgerCalls == {"deploy", "cancel", "register", "deactivate", "reactivate"}

\* a handler reaches its ledger write and calls submit
SubmitEnter(w, call) ==
    /\ FirstFree(w)
    /\ pc' = [pc EXCEPT ![w] = "submit_wait"]
    /\ req' = [req EXCEPT ![w] = [op |-> "submit", call |-> call, nonce |-> NULL]]
    /\ submitted' = "none"
    /\ UNCHANGED <<resp, AccountVars>>

\* submit entered without waiting for the serialization point
SubmitLockOpen(w) ==
    /\ pc[w] = "submit_wait"
    /\ nonce_lock' = w
    /\ pc' = [pc EXCEPT ![w] = "submit_nonce"]
    /\ submitted' = "none"
    /\ UNCHANGED <<req, resp, account_nonce, broadcast>>

\* the serialization point of submit: one caller at a time gets past it
SubmitLock(w) ==
    /\ pc[w] = "submit_wait"
    /\ nonce_lock = 0
    /\ nonce_lock' = w
    /\ pc' = [pc EXCEPT ![w] = "submit_nonce"]
    /\ submitted' = "none"
    /\ UNCHANGED <<req, resp, account_nonce, broadcast>>

\* submit fetches the next nonce of the signing account
SubmitNonce(w) ==
    /\ pc[w] = "submit_nonce"
    /\ req' = [req EXCEPT ![w].nonce = account_nonce]
    /\ pc' = [pc EXCEPT ![w] = "submit_send"]
    /\ submitted' = "none"
    /\ UNCHANGED <<resp, AccountVars>>

\* submit signs and broadcasts the transaction (sent: it reached the ledger,
\* which then counts the nonce as used) and leaves the serialization point
SubmitSend(w, sent) ==
    /\ pc[w] = "submit_send"
    /\ sent => account_nonce < MaxSubmissions
    /\ broadcast' = IF sent THEN Append(broadcast, req[w].nonce) ELSE broadcast
    /\ account_nonce' = IF sent /\ req[w].nonce = account_nonce
                        THEN account_nonce + 1 ELSE account_nonce
    /\ nonce_lock' = IF nonce_lock = w THEN 0 ELSE nonce_lock
    /\ submitted' = req[w].call
    /\ Respond("submit", IF sent THEN HTTP_OK ELSE HTTP_SERVER_ERROR, 0)
    /\ pc' = [pc EXCEPT ![w] = "idle"]
    /\ req' = [req EXCEPT ![w] = Idle]

\* ----------------------------------------------------------- the ledger
\* the ballot contract is finalized on the ledger (by its administrator)
LedgerFinalize(b) ==
    /\ b \in 1..Len(ballots)
    /\ ~ballots[b].finalized
    /\ ballots' = [ballots EXCEPT ![b].finalized = TRUE]
    /\ submitted' = "none"
    /\ UNCHANGED <<elections, candidates, receipts, results, now, pc, req, resp>>

\* ------------------------------------------------------- specifications
CreateElection ==
    \/ \E w \in Workers, c \in DeadlineInputs, r \in DeadlineInputs,
          n \in 1..MaxCandidates, ok \in BOOLEAN :
          CreateElectionBegin(w, c, r, n, ok) /\ UNCHANGED <<VoterVars, AccountVars, AuthVars>>
    \/ \E w \in Workers : CreateElectionCommit(w) /\ UNCHANGED <<VoterVars, AccountVars, AuthVars>>

RecordCommit ==
    \/ \E w \in Workers, b \in BallotInputs, h \in CommitHashes,
          v \in RawAddresses, t \in CommitTxHashes :
          RecordCommitCheck(w, b, h, v, t) /\ UNCHANGED <<VoterVars, AccountVars, AuthVars>>
    \/ \E w \in Workers : RecordCommitInsert(w) /\ UNCHANGED <<VoterVars, AccountVars, AuthVars>>

RecordRevealReq ==
    \E b \in BallotInputs, v \in RawAddresses, t \in TxHashes :
        RecordReveal(b, v, t) /\ UNCHANGED <<VoterVars, AccountVars, AuthVars>>

SyncResultsReq ==
    \/ \E e \in ElectionIds, results_ok \in BOOLEAN, info_ok \in BOOLEAN :
          /\ ~(results_ok /\ info_ok)
          /\ SyncResults(e, results_ok /\ info_ok, <<>>, 0, 0)
          /\ UNCHANGED <<VoterVars, AccountVars, AuthVars>>
    \/ \E e \in ElectionIds, votes \in VoteVectors, info \in InfoInputs :
          /\ SyncResults(e, TRUE, votes, info.total_commits, info.total_reveals)
          /\ UNCHANGED <<VoterVars, AccountVars, AuthVars>>

\* the tallies a ballot can report: one count for each of its candidates
BallotTallies(election_id) ==
    {votes \in VoteVectors :
        Len(votes) = Cardinality({c \in candidates : c.election_id = election_id})}

SyncResultsConcurrent ==
    \/ \E w \in Workers, e \in ElectionIds, results_ok \in BOOLEAN, info_ok \in BOOLEAN :
          /\ ~(results_ok /\ info_ok)
          /\ SyncResultsBegin(w, e, results_ok /\ info_ok, <<>>, 0, 0)
          /\ UNCHANGED <<VoterVars, AccountVars, AuthVars>>
    \/ \E w \in Workers, e \in ElectionIds, info \in InfoInputs :
       \E votes \in BallotTallies(e) :
          /\ SyncResultsBegin(w, e, TRUE, votes, info.total_commits, info.total_reveals)
          /\ UNCHANGED <<VoterVars, AccountVars, AuthVars>>
    \/ \E w \in Workers :
          SyncResultsCommit(w) /\ UNCHANGED <<VoterVars, AccountVars, AuthVars>>

CancelElectionReq ==
    \E e \in ElectionIds, ok \in BOOLEAN : CancelElection(e, ok) /\ UNCHANGED <<VoterVars, AccountVars, AuthVars>>

LedgerStep == \E b \in 1..MaxElections : LedgerFinalize(b) /\ UNCHANGED <<VoterVars, AccountVars, AuthVars>>

RegisterVoter ==
    \/ \E w \in Workers, a \in WalletInputs, v \in RawVoterIds, ok \in BOOLEAN :
          RegisterVoterBegin(w, a, v, ok) /\ UNCHANGED <<deactivated, AccountVars, AuthVars>>
    \/ \E w \in Workers : RegisterVoterCommit(w) /\ UNCHANGED <<deactivated, AccountVars, AuthVars>>

RetryOnchainRegistration ==
    \/ \E w \in Workers, v \in VoterIds : RetryBegin(w, v) /\ UNCHANGED <<AccountVars, AuthVars>>
    \/ \E w \in Workers, ok \in BOOLEAN : RetrySubmit(w, ok) /\ UNCHANGED <<deactivated, AccountVars, AuthVars>>

DeactivateVoter ==
    \/ \E w \in Workers, v \in VoterIds : DeactivateVoterBegin(w, v) /\ UNCHANGED <<AccountVars, AuthVars>>
    \/ \E w \in Workers, ok \in BOOLEAN : DeactivateVoterTx(w, ok) /\ UNCHANGED <<AccountVars, AuthVars>>

ReactivateVoter ==
    \/ \E w \in Workers, v \in VoterIds : ReactivateVoterBegin(w, v) /\ UNCHANGED <<AccountVars, AuthVars>>
    \/ \E w \in Workers, ok \in BOOLEAN : ReactivateVoterTx(w, ok) /\ UNCHANGED <<AccountVars, AuthVars>>

CheckEligibilityReq ==
    \E a \in EligibilityInputs, ok \in BOOLEAN : CheckEligibility(a, ok) /\ UNCHANGED <<AccountVars, AuthVars>>

Submit ==
    \/ \E w \in Workers, c \in LedgerCalls :
          SubmitEnter(w, c) /\ UNCHANGED <<ElectionVars, VoterVars, AuthVars>>
    \/ \E w \in Workers : SubmitLock(w) /\ UNCHANGED <<ElectionVars, VoterVars, AuthVars>>
    \/ \E w \in Workers : SubmitNonce(w) /\ UNCHANGED <<ElectionVars, VoterVars, AuthVars>>
    \/ \E w \in Workers, sent \in BOOLEAN :
          SubmitSend(w, sent) /\ UNCHANGED <<ElectionVars, VoterVars, AuthVars>>

AdminRegisterReq ==
    \E e \in Emails, ok \in BOOLEAN :
        AdminRegister(e, ok) /\ UNCHANGED <<ElectionVars, VoterVars, AccountVars>>

AdminLoginReq ==
    \E e \in Emails, ok \in BOOLEAN :
        AdminLogin(e, ok) /\ UNCHANGED <<ElectionVars, VoterVars, AccountVars>>

VoterLoginReq ==
    \E a \in WalletInputs :
        VoterLogin(a) /\ UNCHANGED <<ElectionVars, VoterVars, AccountVars>>

AdminRequiredReq ==
    \E t \in tokens :
        AdminRequired(t) /\ UNCHANGED <<ElectionVars, VoterVars, AccountVars>>

\* receipts bookkeeping: elections are created, voters commit and reveal
NextReceipts ==
    \/ Tick
    \/ CreateElection
    \/ RecordCommit
    \/ RecordRevealReq

\* election lifecycle: creation, results sync, cancellation, the ledger
NextLifecycle ==
    \/ Tick
    \/ CreateElection
    \/ SyncResultsReq
    \/ CancelElectionReq
    \/ LedgerStep

\* election creation alone, with the cancellation of what was created
NextCreation ==
    \/ Tick
    \/ CreateElection
    \/ CancelElectionReq

\* the voter registry: registration and the retry of its ledger half
NextVoters ==
    \/ RegisterVoter
    \/ RetryOnchainRegistration

\* the voters' active flag: registration, deactivation, reactivation and the
\* eligibility check
NextActivation ==
    \/ RegisterVoter
    \/ DeactivateVoter
    \/ ReactivateVoter
    \/ CheckEligibilityReq

\* the signing account: concurrent ledger writes of the handlers
NextSubmit == Submit

\* authentication: admins and voters are registered, log in, and call
\* admin-only routes
NextAuth ==
    \/ RegisterVoter
    \/ AdminRegisterReq
    \/ AdminLoginReq
    \/ VoterLoginReq
    \/ AdminRequiredReq

\* concurrent syncs of the results of created elections
NextSync ==
    \/ CreateElection
    \/ SyncResultsConcurrent

Next ==
    \/ NextSync
    \/ NextAuth
    \/ NextSubmit
    \/ NextReceipts
    \/ NextLifecycle
    \/ NextVoters
    \/ NextActivation

Spec == Init /\ [][Next]_vars
SpecReceipts == Init /\ [][NextReceipts]_vars
SpecLifecycle == Init /\ [][NextLifecycle]_vars
SpecCreation == Init /\ [][NextCreation]_vars
SpecVoters == Init /\ [][NextVoters]_vars
SpecActivation == Init /\ [][NextActivation]_vars
SpecSubmit == Init /\ [][NextSubmit]_vars
SpecAuth == Init /\ [][NextAuth]_vars
SpecSync == Init /\ [][NextSync]_vars

\* ================================================================ claims
\* the (election, voter) pair has a row in votes_metadata
PairHasReceipt(e, v) ==
    \E i \in 1..Len(receipts) :
        receipts[i].election_id = e /\ receipts[i].voter_address = v

\* C1: in every reachable state, whatever the interleaving of record_commit
\* and record_reveal requests, no two VoteReceipt rows share their
\* (electionId, voterAddress) pair.
C1_OneReceiptPerPair ==
    \A i, j \in 1..Len(receipts) :
        (/\ receipts[i].election_id = receipts[j].election_id
         /\ receipts[i].voter_address = receipts[j].voter_address) => i = j

\* two record_commit requests of one pair raced: the second insert was refused
C1_Witness ==
    /\ resp.op = "record_commit"
    /\ resp.code = HTTP_SERVER_ERROR
    /\ \E i \in 1..Len(receipts) : receipts[i].election_id = resp.election

\* C2: a record_commit whose pair already has a receipt answers 409
\* (DuplicateReceipt) and leaves the table of receipts, hence every field of
\* the existing receipt, as it was.
C2_DuplicateCommitRejected ==
    [][\A b \in BallotInputs, v \in RawAddresses :
          PairHasReceipt(ElectionByBallot(b), Lower(v))
          => \A w \in Workers, h \in CommitHashes, t \in CommitTxHashes :
                RecordCommitCheck(w, b, h, v, t)
                => /\ resp' = [op |-> "record_commit", code |-> HTTP_CONFLICT,
                               election |-> ElectionByBallot(b)]
                   /\ receipts' = receipts
                   /\ pc'[w] = "idle"]_vars

\* a duplicate record_commit was answered 409 while the receipt is there
C2_Witness ==
    /\ resp.op = "record_commit"
    /\ resp.code = HTTP_CONFLICT
    /\ \E i \in 1..Len(receipts) :
          receipts[i].election_id = resp.election /\ receipts[i].phase = "committed"

\* C3: a record_reveal whose pair has no receipt answers 404 (NotFound) and
\* leaves the table of receipts as it was: reveal never creates a receipt.
C3_RevealWithoutCommit ==
    [][\A b \in BallotInputs, v \in RawAddresses :
          ~PairHasReceipt(ElectionByBallot(b), Lower(v))
          => \A t \in TxHashes :
                RecordReveal(b, v, t)
                => /\ resp'.op = "record_reveal"
                   /\ resp'.code = HTTP_NOT_FOUND
                   /\ receipts' = receipts]_vars

\* a reveal of a deployed election without a receipt was answered 404
C3_Witness ==
    /\ resp.op = "record_reveal"
    /\ resp.code = HTTP_NOT_FOUND
    /\ resp.election # 0
    /\ \A i \in 1..Len(receipts) : receipts[i].election_id # resp.election

\* C4: the phase of a receipt is monotonic: a row that is revealed stays in
\* the table and stays revealed in every later state.
C4_PhaseMonotonic ==
    [][\A i \in 1..Len(receipts) :
          receipts[i].phase = "revealed"
          => /\ i <= Len(receipts')
             /\ receipts'[i].phase = "revealed"]_vars

\* a record_commit arrived for a pair whose receipt is revealed
C4_Witness ==
    /\ resp.op = "record_commit"
    /\ resp.code \in {HTTP_CONFLICT, HTTP_SERVER_ERROR}
    /\ \E i \in 1..Len(receipts) :
          receipts[i].election_id = resp.election /\ receipts[i].phase = "revealed"

\* C5: once a receipt is revealed, no later record_reveal changes its
\* revealedAt or its revealTxHash.
C5_RevealedOnce ==
    [][\A i \in 1..Len(receipts) :
          receipts[i].phase = "revealed"
          => /\ receipts'[i].revealed_at = receipts[i].revealed_at
             /\ receipts'[i].reveal_tx_hash = receipts[i].reveal_tx_hash]_vars

\* C6: create_election with a commit deadline that is not strictly in the
\* future, a reveal deadline not after the commit deadline, or fewer than 2
\* candidates answers 400 (ValidationError), persists no Election and no
\* Candidate row and makes no ledger submission.
C6_InvalidElectionRejected ==
    [][\A c \in DeadlineInputs, r \in DeadlineInputs, n \in 1..MaxCandidates :
          (c <= now \/ r <= c \/ n < 2)
          => \A w \in Workers, ok \in BOOLEAN :
                CreateElectionBegin(w, c, r, n, ok)
                => /\ resp' = [op |-> "create_election", code |-> HTTP_BAD_REQUEST,
                               election |-> 0]
                   /\ elections' = elections
                   /\ candidates' = candidates
                   /\ ballots' = ballots
                   /\ submitted' = "none"
                   /\ pc' = pc]_vars

\* an invalid create_election was answered 400
C6_Witness ==
    /\ resp.op = "create_election"
    /\ resp.code = HTTP_BAD_REQUEST
    /\ submitted = "none"

\* C7: when create_election passed validation and the deployment failed, the
\* commit persists the Election row with all its Candidate rows, status
\* pending, onChainId and ballotAddress null, and the request answers 201.
C7_FailedDeploymentKeepsRow ==
    [][\A w \in Workers :
          (/\ pc[w] = "create_commit"
           /\ ~req[w].deployed
           /\ CreateElectionCommit(w))
          => LET e == Len(elections) + 1 IN
             /\ Len(elections') = e
             /\ elections'[e].status = "pending"
             /\ elections'[e].onchain_id = NULL
             /\ elections'[e].ballot_address = NULL
             /\ req[w].ncand >= 2
             /\ {c \in candidates' : c.election_id = e} =
                    {[election_id |-> e, idx |-> i] : i \in 1..req[w].ncand}
             /\ resp' = [op |-> "create_election", code |-> HTTP_CREATED,
                         election |-> e]]_vars

\* an election was created while the ledger refused its deployment
C7_Witness ==
    /\ resp.op = "create_election"
    /\ resp.code = HTTP_CREATED
    /\ elections[resp.election].status = "pending"
    /\ elections[resp.election].ballot_address = NULL
    /\ Cardinality({c \in candidates : c.election_id = resp.election}) >= 2

\* C8: when create_election passed validation and the deployment succeeded,
\* the persisted Election is active and carries the non-null on-chain id and
\* ballot address the deployment returned, those of a ballot on the ledger.
C8_DeployedElectionActive ==
    [][\A w \in Workers :
          (/\ pc[w] = "create_commit"
           /\ req[w].deployed
           /\ CreateElectionCommit(w))
          => LET e == Len(elections) + 1 IN
             /\ Len(elections') = e
             /\ elections'[e].status = "active"
             /\ elections'[e].onchain_id # NULL
             /\ elections'[e].ballot_address # NULL
             /\ elections'[e].onchain_id = req[w].onchain_id
             /\ elections'[e].ballot_address = req[w].ballot_address
             /\ elections'[e].onchain_id \in 1..Len(ballots)
             /\ elections'[e].ballot_address = BallotAddress(elections'[e].onchain_id)]_vars

\* an election was created and its ballot deployed
C8_Witness ==
    /\ resp.op = "create_election"
    /\ resp.code = HTTP_CREATED
    /\ elections[resp.election].status = "active"
    /\ elections[resp.election].ballot_address # NULL

\* C9: an election that is finalized or cancelled is terminal: no step
\* changes its status.
C9_TerminalStatus ==
    [][\A e \in 1..Len(elections) :
          elections[e].status \in {"finalized", "cancelled"}
          => elections'[e].status = elections[e].status]_vars

\* the order pending < active < reveal < tallying < finalized
StatusOrder == <<"pending", "active", "reveal", "tallying", "finalized">>
StatusRank(s) == CHOOSE k \in 1..Len(StatusOrder) : StatusOrder[k] = s
Ordered(s) == \E k \in 1..Len(StatusOrder) : StatusOrder[k] = s

\* C10: every change of an election's status to a value other than cancelled
\* moves it to a strictly later status of the order.
C10_ForwardOnly ==
    [][\A e \in 1..Len(elections) :
          (/\ elections'[e].status # elections[e].status
           /\ elections'[e].status # "cancelled")
          => /\ Ordered(elections[e].status)
             /\ Ordered(elections'[e].status)
             /\ StatusRank(elections[e].status) < StatusRank(elections'[e].status)]_vars

\* C11: in every reachable state each persisted election has onchain_id and
\* ballot_address either both set or both null.
C11_IdsPaired ==
    \A e \in 1..Len(elections) :
        (elections[e].onchain_id = NULL) <=> (elections[e].ballot_address = NULL)

\* one election persisted with both identifiers, another with neither
C11_Witness ==
    \E d, p \in 1..Len(elections) :
        /\ elections[d].onchain_id # NULL /\ elections[d].ballot_address # NULL
        /\ elections[p].onchain_id = NULL /\ elections[p].ballot_address = NULL

\* C12: cancel_election on an election with a ballot address submits the
\* ledger's cancel transaction; it sets the local status to cancelled and
\* answers 200 only when that call succeeded, and when the call fails it
\* answers 500 and leaves the table of elections as it was.
C12_CancelLedgerFirst ==
    [][\A e \in 1..Len(elections) :
          elections[e].ballot_address # NULL
          => \A ok \in BOOLEAN :
                CancelElection(e, ok)
                => /\ submitted' = "cancel"
                   /\ ok => /\ elections' = [elections EXCEPT ![e].status = "cancelled"]
                             /\ resp' = [op |-> "cancel_election", code |-> HTTP_OK,
                                         election |-> e]
                   /\ ~ok => /\ elections' = elections
                              /\ resp' = [op |-> "cancel_election",
                                          code |-> HTTP_SERVER_ERROR, election |-> e]]_vars

\* the ledger refused the cancel transaction of a deployed, active election
C12_Witness ==
    /\ resp.op = "cancel_election"
    /\ resp.code = HTTP_SERVER_ERROR
    /\ submitted = "cancel"
    /\ elections[resp.election].ballot_address # NULL
    /\ elections[resp.election].status = "active"

\* C13: cancel_election on an election without a ballot address makes no
\* ledger call, answers 200 and sets the local status to cancelled, whether
\* or not the ledger would have accepted a transaction.
C13_CancelLocalOnly ==
    [][\A e \in 1..Len(elections) :
          elections[e].ballot_address = NULL
          => \A ok \in BOOLEAN :
                CancelElection(e, ok)
                => /\ submitted' = "none"
                   /\ ballots' = ballots
                   /\ elections' = [elections EXCEPT ![e].status = "cancelled"]
                   /\ resp' = [op |-> "cancel_election", code |-> HTTP_OK,
                               election |-> e]]_vars

\* an election that was never deployed was cancelled without a ledger call
C13_Witness ==
    /\ resp.op = "cancel_election"
    /\ resp.code = HTTP_OK
    /\ submitted = "none"
    /\ elections[resp.election].ballot_address = NULL
    /\ elections[resp.election].status = "cancelled"

\* the cached rows of an election
RowsOf(table, e) == {r \in table : r.election_id = e}

\* m is the greatest vote count of the fetched candidates, 0 when there is none
IsMaxVotes(votes, m) ==
    IF Len(votes) = 0 THEN m = 0
    ELSE /\ \E i \in 1..Len(votes) : votes[i] = m
         /\ \A i \in 1..Len(votes) : votes[i] <= m

\* C14: after a sync that answered 200, a cached row of the election is a
\* winner exactly when its vote count equals the greatest vote count of the
\* fetched candidates and that count is above 0: candidates tied at the top
\* are all winners, and with no candidate or only zero counts no row is.
C14_WinnersAtMax ==
    [][\A e \in 1..Len(elections), votes \in VoteVectors, info \in InfoInputs :
          (/\ resp' = [op |-> "sync_results", code |-> HTTP_OK, election |-> e]
           /\ SyncResults(e, TRUE, votes, info.total_commits, info.total_reveals))
          => \A m \in 0..MaxVotes :
                IsMaxVotes(votes, m)
                => /\ \A r \in RowsOf(results', e) :
                         r.is_winner <=> (r.vote_count = m /\ m > 0)
                   /\ \A i \in 1..Len(votes) :
                         \E r \in RowsOf(results', e) :
                            /\ r.candidate_id = i
                            /\ r.is_winner <=> (votes[i] = m /\ m > 0)]_vars

\* a sync cached two candidates tied at the top: both are winners
C14_Witness ==
    /\ resp.op = "sync_results"
    /\ resp.code = HTTP_OK
    /\ \E r1, r2 \in RowsOf(results, resp.election) :
          /\ r1.candidate_id # r2.candidate_id
          /\ r1.is_winner /\ r2.is_winner
          /\ r1.vote_count = r2.vote_count

\* C15: after a sync that answered 200, the cached rows of the election are
\* those of the fetched candidates, one row each (as many rows as candidates
\* fetched, whatever earlier syncs cached), and the cached rows of every other
\* election are as they were.
C15_SyncReplaces ==
    [][\A e \in 1..Len(elections), votes \in VoteVectors, info \in InfoInputs :
          (/\ resp' = [op |-> "sync_results", code |-> HTTP_OK, election |-> e]
           /\ SyncResults(e, TRUE, votes, info.total_commits, info.total_reveals))
          => /\ Cardinality(RowsOf(results', e)) = Len(votes)
             /\ \A i \in 1..Len(votes) :
                   \E r \in RowsOf(results', e) :
                      r.candidate_id = i /\ r.vote_count = votes[i]
             /\ \A o \in 1..Len(elections) :
                   o # e => RowsOf(results', o) = RowsOf(results, o)]_vars

\* an election synced while another election keeps its cached rows
C15_Witness ==
    /\ resp.op = "sync_results"
    /\ resp.code = HTTP_OK
    /\ \E o \in 1..Len(elections) :
          /\ o # resp.election
          /\ RowsOf(results, o) # {}
          /\ Cardinality(RowsOf(results, resp.election)) < Cardinality(RowsOf(results, o))

\* C16: when the read of the ballot's results or the read of the election
\* info fails, sync_results answers 500 and leaves the cached rows and the
\* elections, hence the status, as they were.
C16_FailBeforeDestroy ==
    [][\A e \in 1..Len(elections) :
          elections[e].ballot_address # NULL
          => \A results_ok \in BOOLEAN, info_ok \in BOOLEAN :
                (/\ ~(results_ok /\ info_ok)
                 /\ SyncResults(e, results_ok /\ info_ok, <<>>, 0, 0))
                => /\ resp' = [op |-> "sync_results", code |-> HTTP_SERVER_ERROR,
                               election |-> e]
                   /\ results' = results
                   /\ elections' = elections]_vars

\* a sync failed on the ledger while rows of the election are cached
C16_Witness ==
    /\ resp.op = "sync_results"
    /\ resp.code = HTTP_SERVER_ERROR
    /\ RowsOf(results, resp.election) # {}

\* C17: a sync that answered 200 leaves the election finalized when the
\* ledger reports the ballot finalized, and with the status it had when the
\* ledger reports it not finalized.
C17_SyncFinalizes ==
    [][\A e \in 1..Len(elections), votes \in VoteVectors, info \in InfoInputs :
          (/\ resp' = [op |-> "sync_results", code |-> HTTP_OK, election |-> e]
           /\ SyncResults(e, TRUE, votes, info.total_commits, info.total_reveals))
          => LET is_finalized == ballots[BallotIndex(elections[e].ballot_address)].finalized
             IN /\ is_finalized => elections'[e].status = "finalized"
                /\ ~is_finalized => elections'[e].status = elections[e].status
                /\ \A o \in 1..Len(elections) : o # e => elections'[o] = elections[o]]_vars

\* a sync finalized one election, another synced election is still active
C17_Witness ==
    /\ resp.op = "sync_results"
    /\ resp.code = HTTP_OK
    /\ elections[resp.election].status = "finalized"
    /\ \E o \in 1..Len(elections) :
          /\ elections[o].status = "active"
          /\ RowsOf(results, o) # {}
          /\ ~ballots[BallotIndex(elections[o].ballot_address)].finalized

\* C18: a retry for a voter whose is_registered_onchain is true answers 400
\* (AlreadyRegistered), makes no ledger submission and leaves the voter rows
\* as they were.
C18_RetryAlreadyRegistered ==
    [][\A v \in 1..Len(voters) :
          voters[v].is_registered_onchain
          => \A w \in Workers :
                RetryBegin(w, v)
                => /\ resp' = [op |-> "retry_onchain_registration",
                               code |-> HTTP_BAD_REQUEST, election |-> v]
                   /\ submitted' = "none"
                   /\ registry' = registry
                   /\ voters' = voters
                   /\ pc'[w] = "idle"]_vars

\* a retry for a voter registered on the ledger was answered 400
C18_Witness ==
    /\ resp.op = "retry_onchain_registration"
    /\ resp.code = HTTP_BAD_REQUEST
    /\ submitted = "none"
    /\ voters[resp.election].is_registered_onchain

\* C19: across registrations and retries, in any interleaving, the ledger
\* accepts at most one register-voter submission for a wallet.
C19_OneRegistration ==
    \A a \in LedgerWallets : registry[a] <= 1

\* C20: in every reachable state, a voter whose is_registered_onchain is true
\* has a register-voter transaction of its wallet accepted by the ledger; a
\* submission that failed leaves no flag true.
C20_FlagOnlyAfterLedger ==
    \A v \in 1..Len(voters) :
        voters[v].is_registered_onchain
        => registry[Lower(voters[v].wallet_address)] >= 1

\* a retry failed on the ledger and left its voter unregistered, while another
\* voter is registered on the ledger
C20_Witness ==
    /\ resp.op = "retry_onchain_registration"
    /\ resp.code = HTTP_SERVER_ERROR
    /\ ~voters[resp.election].is_registered_onchain
    /\ registry[Lower(voters[resp.election].wallet_address)] = 0
    /\ \E v \in 1..Len(voters) :
          voters[v].is_registered_onchain /\ voters[v].tx_hash # NULL

\* no two voter rows share a wallet address (whatever its letter case) or an
\* identity hash
VotersUnique(table) ==
    \A i, j \in 1..Len(table) :
        i # j => /\ Lower(table[i].wallet_address) # Lower(table[j].wallet_address)
                 /\ table[i].identity_hash # table[j].identity_hash

\* a voter row has this wallet address or this identity hash
Duplicates(wallet, identity_hash) ==
    \E i \in 1..Len(voters) :
        \/ Lower(voters[i].wallet_address) = Lower(wallet)
        \/ voters[i].identity_hash = identity_hash

\* C21: after every step of any interleaving of registrations no two voter
\* rows share a wallet address and no two share an identity hash; a
\* registration that would duplicate either is refused (409 at its check, 500
\* at its insert) and adds no voter row.
C21_VotersUnique ==
    [][/\ VotersUnique(voters')
       /\ \A a \in WalletInputs, v \in RawVoterIds :
             Duplicates(Strip(a), HashIdentity(v))
             => \A w \in Workers, ok \in BOOLEAN :
                   RegisterVoterBegin(w, a, v, ok)
                   => /\ resp' = [op |-> "register_voter", code |-> HTTP_CONFLICT,
                                  election |-> 0]
                      /\ voters' = voters
       /\ \A w \in Workers :
             (/\ pc[w] = "register_commit"
              /\ Duplicates(req[w].wallet_address, req[w].identity_hash)
              /\ RegisterVoterCommit(w))
             => /\ resp' = [op |-> "register_voter", code |-> HTTP_SERVER_ERROR,
                            election |-> 0]
                /\ voters' = voters]_vars

\* two registrations raced: the insert of the second was refused
C21_Witness ==
    /\ resp.op = "register_voter"
    /\ resp.code = HTTP_SERVER_ERROR
    /\ Len(voters) >= 1

\* a voter row of the wallet is active locally
ActiveLocally(wallet) ==
    \E v \in 1..Len(voters) :
        Lower(voters[v].wallet_address) = Lower(wallet) /\ voters[v].is_active

C23_RegistrationSurvivesLedgerFailure ==
    [][/\ \A a \in WalletInputs, v \in RawVoterIds :
             ~Duplicates(Strip(a), HashIdentity(v))
             => \A w \in Workers :
                   RegisterVoterBegin(w, a, v, FALSE)
                   => /\ pc'[w] = "register_commit"
                      /\ ~req'[w].is_registered_onchain
                      /\ req'[w].tx_hash = NULL
                      /\ registry' = registry
       /\ \A w \in Workers :
             (/\ pc[w] = "register_commit"
              /\ ~req[w].is_registered_onchain
              /\ ~Duplicates(req[w].wallet_address, req[w].identity_hash)
              /\ RegisterVoterCommit(w))
             => LET id == Len(voters) + 1 IN
                /\ Len(voters') = id
                /\ voters'[id].wallet_address = req[w].wallet_address
                /\ voters'[id].identity_hash = req[w].identity_hash
                /\ ~voters'[id].is_registered_onchain
                /\ voters'[id].tx_hash = NULL
                /\ resp' = [op |-> "register_voter", code |-> HTTP_CREATED,
                            election |-> id]]_vars

\* a voter was registered locally while the ledger refused the registration
C23_Witness ==
    /\ resp.op = "register_voter"
    /\ resp.code = HTTP_CREATED
    /\ ~voters[resp.election].is_registered_onchain
    /\ voters[resp.election].tx_hash = NULL
    /\ registry[Lower(voters[resp.election].wallet_address)] = 0

\* C24: the ledger writes of concurrent requests pass one serialization
\* point: at most one submit is past it at a time, and no two transactions
\* sent for the signing account carry the same nonce.
C24_NoncesDistinct ==
    /\ \A i, j \in 1..Len(broadcast) : broadcast[i] = broadcast[j] => i = j
    /\ Cardinality({w \in Workers : pc[w] \in {"submit_nonce", "submit_send"}}) <= 1

\* two transactions were sent while another submit waits at the
\* serialization point behind the one that holds it
C24_Witness ==
    /\ Len(broadcast) >= 2
    /\ \E w, v \in Workers :
          /\ pc[w] = "submit_wait"
          /\ pc[v] = "submit_send"
          /\ nonce_lock = v

\* C25: create_election writes its Election row durably before it attempts
\* the deployment: in every state each ballot deployed on the ledger has a
\* committed election row.
C25_RecordBeforeDeploy ==
    Len(elections) >= Len(ballots)

\* C26: when the ledger call of a retry fails, the retry answers 500 and the
\* voter row keeps is_registered_onchain false and its tx_hash, so that a
\* further retry of the voter is let through to the ledger.
C26_FailedRetryKeepsVoter ==
    [][/\ \A w \in Workers :
             (/\ pc[w] = "retry_submit"
              /\ RetrySubmit(w, FALSE))
             => LET v == req[w].voter_id IN
                /\ resp' = [op |-> "retry_onchain_registration",
                            code |-> HTTP_SERVER_ERROR, election |-> v]
                /\ voters' = voters
                /\ registry' = registry
                /\ ~voters[v].is_registered_onchain
                      => /\ ~voters'[v].is_registered_onchain
                         /\ voters'[v].tx_hash = NULL
       /\ \A w \in Workers, v \in 1..Len(voters) :
             (/\ ~voters[v].is_registered_onchain
              /\ RetryBegin(w, v))
             => /\ pc'[w] = "retry_submit"
                /\ req'[w].voter_id = v]_vars

\* a retry failed on the ledger; its voter is unregistered, without a hash
C26_Witness ==
    /\ resp.op = "retry_onchain_registration"
    /\ resp.code = HTTP_SERVER_ERROR
    /\ submitted = "register"
    /\ ~voters[resp.election].is_registered_onchain
    /\ voters[resp.election].tx_hash = NULL

\* C27: deactivate_voter commits is_active false and reactivate_voter commits
\* is_active true before the ledger call, and whether that call succeeds or
\* fails the flag stays as committed and the request answers 200.
C27_LocalFlagRegardlessOfLedger ==
    [][/\ \A w \in Workers, v \in 1..Len(voters) :
             /\ DeactivateVoterBegin(w, v)
                   => ~voters'[v].is_active /\ submitted' = "none"
             /\ ReactivateVoterBegin(w, v)
                   => voters'[v].is_active /\ submitted' = "none"
       /\ \A w \in Workers, ok \in BOOLEAN :
             /\ (pc[w] = "deactivate_tx" /\ DeactivateVoterTx(w, ok))
                   => /\ voters' = voters
                      /\ resp' = [op |-> "deactivate_voter", code |-> HTTP_OK,
                                  election |-> req[w].voter_id]
             /\ (pc[w] = "reactivate_tx" /\ ReactivateVoterTx(w, ok))
                   => /\ voters' = voters
                      /\ resp' = [op |-> "reactivate_voter", code |-> HTTP_OK,
                                  election |-> req[w].voter_id]]_vars

\* a deactivation answered 200 whose ledger call failed: the voter is
\* inactive locally and still active on the ledger
C27_Witness ==
    /\ resp.op = "deactivate_voter"
    /\ resp.code = HTTP_OK
    /\ submitted = "deactivate"
    /\ ~voters[resp.election].is_active
    /\ ~deactivated[Lower(voters[resp.election].wallet_address)]

\* C28: no request to an admin-only route is let through on a token that
\* voter_login issued.
C28_VoterTokenNeverAdmin ==
    [][\A t \in tokens :
          (/\ AdminRequired(t)
           /\ resp'.code = HTTP_OK)
          => t.role # "voter"]_vars

\* C29: in every reachable state an election that is active or finalized has
\* a ballot address and an on-chain id, and a pending election has neither.
C29_StatusMatchesIds ==
    \A e \in 1..Len(elections) :
        /\ elections[e].status \in {"active", "finalized"}
              => /\ elections[e].ballot_address # NULL
                 /\ elections[e].onchain_id # NULL
        /\ elections[e].status = "pending"
              => /\ elections[e].ballot_address = NULL
                 /\ elections[e].onchain_id = NULL

\* a finalized election with its identifiers next to a pending one without
C29_Witness ==
    \E f, p \in 1..Len(elections) :
        /\ elections[f].status = "finalized"
        /\ elections[f].ballot_address # NULL
        /\ elections[p].status = "pending"
        /\ elections[p].ballot_address = NULL

\* C30: of two concurrent record_commit requests of one pair, one inserts the
\* receipt and the other, which finds the pair taken at its insert, answers
\* 409 (DuplicateReceipt), no other failure, and writes nothing.
C30_RaceLoserIsDuplicate ==
    [][\A w \in Workers :
          (/\ pc[w] = "commit_insert"
           /\ PairHasReceipt(req[w].election_id, req[w].voter_address)
           /\ RecordCommitInsert(w))
          => /\ resp' = [op |-> "record_commit", code |-> HTTP_CONFLICT,
                         election |-> req[w].election_id]
             /\ receipts' = receipts]_vars

\* the cached rows are those of one fetch: one row per candidate 1..n
RowsOfOneFetch(rows) ==
    /\ \A r1, r2 \in rows : r1.candidate_id = r2.candidate_id => r1 = r2
    /\ \E votes \in VoteVectors :
          /\ {r.candidate_id : r \in rows} = 1..Len(votes)
          /\ \A r \in rows : r.vote_count = votes[r.candidate_id]

\* C31: when concurrent syncs of an election have all completed, its cached
\* rows are the candidate set of one fetch: rows of two syncs do not coexist
\* and no candidate has more than one cached row.
C31_ConcurrentSyncOneFetch ==
    (\A w \in Workers : pc[w] # "sync_commit")
    => \A e \in 1..Len(elections) : RowsOfOneFetch(RowsOf(results, e))

\* C32: whenever no register_voter request stands between its ledger call and
\* its commit, every wallet whose registration the ledger accepted has a
\* voter row.
C32_LedgerRegistrationHasRow ==
    (\A w \in Workers : pc[w] # "register_commit")
    => \A a \in LedgerWallets :
          registry[a] >= 1
          => \E v \in 1..Len(voters) : Lower(voters[v].wallet_address) = a
====
